---- MODULE Spec2Model ----
(***************************************************************************)
(* Model of EventNotifier (src/src/lib/notifications/EventNotifier.ts).    *)
(*                                                                         *)
(* A cron job fires refresh() once a minute.  refresh() is an async        *)
(* function: it runs synchronously between two awaits and is suspended at  *)
(* each await.  One action of this model is one resumption of one          *)
(* refresh() invocation: the completion of the call it was awaiting,       *)
(* followed by the synchronous code up to the next awaited call.  The cron *)
(* job does not wait for the promise refresh() returns, so invocations may *)
(* be in flight together.                                                  *)
(*                                                                         *)
(* Times are milliseconds, as Date.now() gives them; event timestamps are  *)
(* epoch seconds, as the event source gives them.                          *)
(***************************************************************************)
EXTENDS Integers, Sequences, FiniteSets, TLC

\* ------------------------------------------------------------------ bounds

\* Number of times the cron job fires in a behaviour.
MaxTicks == 2

\* Number of refresh() invocations that may be in flight together.
MaxOverlap == 2

\* Number of times the cron job fires in the end-to-end scenario.
MaxScenarioTicks == 3

\* The invocations in flight are held in slots; a slot is free again once its
\* invocation has ended.
Slots == 1..MaxOverlap

\* ------------------------------------------------------------- environment

\* duration.seconds / duration.minutes / duration.hours, in milliseconds.
Seconds(n) == n * 1000
Minutes(n) == n * 60 * 1000
Hours(n) == n * 60 * 60 * 1000

\* The cron pattern "0 */1 * * * *": one firing per minute.
CronPeriod == Seconds(60)

\* Events.Helltide, and one kind without a grace rule or a refresh phase.
Helltide == "helltide"
WorldBoss == "world_boss"

\* The occurrences the event source reports (epoch seconds).
HelltideEvent == [timestamp |-> 1000, refresh |-> 1600]
WorldBossEvent == [timestamp |-> 1000, refresh |-> 0]

\* The entries of the events object, in Object.entries order.
Entries == << <<Helltide, HelltideEvent>>, <<WorldBoss, WorldBossEvent>> >>

\* What getStatus() and getEvents() can resolve to; <<>> is "absent" (null).
FetchResults ==
    { [status |-> <<>>,                           events |-> Entries],
      [status |-> << [event_service |-> FALSE] >>, events |-> Entries],
      [status |-> << [event_service |-> TRUE] >>,  events |-> <<>>],
      [status |-> << [event_service |-> TRUE] >>,  events |-> Entries] }

\* The instants at which the clock is observed, relative to the occurrence
\* start (1000 s): inside the grace period, at its end, at and just past the
\* staleness bound, just before and at the refresh date, at and just past
\* the end of the refresh window.
Instants ==
    { Seconds(1000) + d : d \in
        { Seconds(10), Seconds(30), Minutes(5), Minutes(5) + 1,
          Seconds(600) - 1, Seconds(600), Hours(1), Hours(1) + 1 } }

FirstInstant == CHOOSE i \in Instants : \A j \in Instants : i <= j

\* The subscribers (guilds) and their delivery settings; channelId "" and
\* roleId "" are "not set".
GuildConfig ==
    << [guildId |-> "g1",
        events |-> << [type |-> Helltide, channelId |-> "c1", roleId |-> "r1"],
                      [type |-> Helltide, channelId |-> "",   roleId |-> "r2"],
                      [type |-> Helltide, channelId |-> "c3", roleId |-> ""] >>],
       [guildId |-> "g2",
        events |-> << [type |-> Helltide, channelId |-> "c4", roleId |-> ""] >>] >>

\* The settings a message id is stored for, as <<guildId, type, channelId>>.
SettingKeysOf(config) ==
    UNION { { <<config[g].guildId, config[g].events[s].type,
                config[g].events[s].channelId>> :
              s \in { x \in DOMAIN config[g].events :
                        config[g].events[x].channelId # "" } } :
            g \in DOMAIN config }

SettingKeys == SettingKeysOf(GuildConfig)

\* How an awaited broadcaster.broadcast(...) can end: an array holding the
\* message, an array holding null, an empty array, or a rejection.
BroadcastOutcomes == { "message", "null", "empty", "raise" }

\* How an awaited updateEventMessageId(...) can end: the id is stored, the
\* store reports a failure, or the call rejects.
WriteBackOutcomes == { "stored", "failed", "raise" }

\* The end-to-end scenario: the event source reports one Helltide occurrence
\* (timestamp t0 = 1000, refresh t0 + 600), one guild has one Helltide
\* setting with a channel, no role and no message id yet, every awaited call
\* succeeds, and each tick has ended before the next one fires.  The ticks
\* fire at some of the instants t0 + 40 s, 100 s, 340 s, 650 s, 710 s, at
\* the end of the refresh window and just past it.
ScenarioEntries == << <<Helltide, HelltideEvent>> >>

ScenarioFetchResults ==
    { [status |-> << [event_service |-> TRUE] >>, events |-> ScenarioEntries] }

ScenarioGuildConfig ==
    << [guildId |-> "g1",
        events |-> << [type |-> Helltide, channelId |-> "c1", roleId |-> ""] >>] >>

ScenarioInstants ==
    { Seconds(1000) + d : d \in
        { Seconds(40), Seconds(100), Seconds(340), Seconds(650), Seconds(710),
          Hours(1), Hours(1) + 1 } }

FirstScenarioInstant ==
    CHOOSE i \in ScenarioInstants : \A j \in ScenarioInstants : i <= j

\* ------------------------------------------------------------------- state

VARIABLES
    scenario,   \* TRUE in a run of the end-to-end scenario; never changes
    now,        \* the wall clock as last read (by the cron job, by Date.now())
    lastFire,   \* the instant of the cron job's last firing, -1 before the first
    started,    \* number of refresh() invocations started so far
    tick,       \* tick[s]: the locals and position of the refresh() invocation in slot s
    db,         \* client.database.notification: the records, in creation order
    messageIds, \* the recipient store: the last message id of each setting
    triggers    \* how often line 132 was reached, per <<key, stage, persisted>>

vars == <<scenario, now, lastFire, started, tick, db, messageIds, triggers>>

\* What the collaborators can do in this run.
Guilds == IF scenario THEN ScenarioGuildConfig ELSE GuildConfig
Fetched == IF scenario THEN ScenarioFetchResults ELSE FetchResults
Clock == IF scenario THEN ScenarioInstants ELSE Instants
Persisted == IF scenario THEN {TRUE} ELSE BOOLEAN
Broadcasts == IF scenario THEN {"message"} ELSE BroadcastOutcomes
WriteBacks == IF scenario THEN {"stored"} ELSE WriteBackOutcomes
Ticks == IF scenario THEN MaxScenarioTicks ELSE MaxTicks

\* The message of line 141 before any setting has touched it: the title with
\* no mention suffix and no allowedMentions.
FreshMessage == [mentions |-> <<>>, allowed |-> {}]

\* The locals of an invocation that has not started.  calls are the
\* broadcast calls it made for the event type it last delivered, log the
\* lines its last step logged.
Idle ==
    [pc |-> "idle", status |-> <<>>, events |-> <<>>, idx |-> 0,
     exist |-> <<>>, now |-> 0, guilds |-> <<>>, gi |-> 0, si |-> 0,
     message |-> FreshMessage, response |-> <<>>, calls |-> {}, log |-> {}]

Ended(l) == l.pc \in {"idle", "done", "rejected"}

FreeSlots == { s \in Slots : Ended(tick[s]) }

\* ------------------------------------------------------- pure parts of refresh

\* ServiceAvailable with the event_service flag left unread.
ServiceAvailable_StatusOnly(status) == status # <<>>

\* Line 52: the guard of the first early return, negated.
ServiceAvailable(status) == status # <<>> /\ status[1].event_service

\* Line 57: the guard of the second early return, negated.
EventsFound(events) == events # <<>>

\* notification.findFirst({where: {type, timestamp}}): <<>> for null.
FindFirst(records, key, timestamp) ==
    LET found == SelectSeq(records, LAMBDA r : r.type = key /\ r.timestamp = timestamp)
    IN  IF found = <<>> THEN <<>> ELSE <<found[1]>>

\* NeedsWork with the refreshed flag left unread.
NeedsWork_RefreshedUnread(exist) ==
    exist = <<>> \/ exist[1].refreshTimestamp > 0

\* Line 70: the occurrence is unseen, or has a refresh phase still to come.
NeedsWork(exist) ==
    exist = <<>> \/ (exist[1].refreshTimestamp > 0 /\ ~exist[1].refreshed)

\* TooRecent with the event's start in place of delayDate.
TooRecent_NoDelay(key, n, event) ==
    LET eventDate == event.timestamp * 1000
    IN  key = Helltide /\ n < eventDate

\* Lines 74-78: the grace rule.
TooRecent(key, n, event) ==
    LET delayDate == event.timestamp * 1000 + Seconds(30)
    IN  key = Helltide /\ n < delayDate

\* RefreshTimestampOf with the refresh of the event not read.
RefreshTimestampOf_None(key, event) == 0

\* Line 83.
RefreshTimestampOf(key, event) == IF key = Helltide THEN event.refresh ELSE 0

\* NewRecord with the record born refreshed.
NewRecord_Refreshed(records, key, event) ==
    [id |-> Len(records) + 1, type |-> key, timestamp |-> event.timestamp,
     refreshTimestamp |-> RefreshTimestampOf(key, event), refreshed |-> TRUE]

\* Lines 87-92: the data given to notification.create; id and refreshed are
\* set by the store.
NewRecord(records, key, event) ==
    [id |-> Len(records) + 1, type |-> key, timestamp |-> event.timestamp,
     refreshTimestamp |-> RefreshTimestampOf(key, event), refreshed |-> FALSE]

\* TooOld measured from delayDate instead of eventDate.
TooOld_FromDelayDate(n, event) ==
    LET delayDate == event.timestamp * 1000 + Seconds(30)
    IN  n > delayDate + Minutes(5)

\* TooOld with no five minutes allowed.
TooOld_FromStart(n, event) ==
    LET eventDate == event.timestamp * 1000
    IN  n > eventDate

\* Line 99: the staleness rule.
TooOld(n, event) ==
    LET eventDate == event.timestamp * 1000
    IN  n > eventDate + Minutes(5)

\* NotReady with the refresh date itself still too early.
NotReady_AtRefreshDate(n, rec) ==
    LET startDate == rec.timestamp * 1000
        refreshDate == rec.refreshTimestamp * 1000
        endDate == startDate + Hours(1)
    IN  ~(n >= startDate /\ n <= endDate) \/ n <= refreshDate

\* Lines 108-113: the refresh is skipped on this tick.
NotReady(n, rec) ==
    LET startDate == rec.timestamp * 1000
        refreshDate == rec.refreshTimestamp * 1000
        endDate == startDate + Hours(1)
    IN  ~(n >= startDate /\ n <= endDate) \/ n < refreshDate

\* RefreshData with the flag the wrong way round.
RefreshData_False == [refreshed |-> FALSE]

\* Lines 123-125: the data given to notification.update.
RefreshData == [refreshed |-> TRUE]

\* notification.update({where: {id}, data}).
UpdateRecord(records, id, data) ==
    [i \in DOMAIN records |->
        IF records[i].id = id
        THEN [records[i] EXCEPT !.refreshed = data.refreshed]
        ELSE records[i]]

\* repository.guild.getAllByEvent(key): the guilds with a setting for key,
\* each setting with the message id the store holds for it.
GetAllByEvent(key, ids) ==
    LET withIds(g) ==
            [g EXCEPT !.events =
                [s \in DOMAIN g.events |->
                    [type |-> g.events[s].type,
                     channelId |-> g.events[s].channelId,
                     roleId |-> g.events[s].roleId,
                     messageId |->
                        IF g.events[s].channelId = "" THEN <<>>
                        ELSE ids[<<g.guildId, g.events[s].type, g.events[s].channelId>>]]]]
        all == [g \in DOMAIN Guilds |-> withIds(Guilds[g])]
    IN  SelectSeq(all, LAMBDA g : \E s \in DOMAIN g.events : g.events[s].type = key)

\* Line 146.
Settings(guild, key) == SelectSeq(guild.events, LAMBDA e : e.type = key)

\* Lines 153-158: the setting's role is appended to the message of the guild.
WithMention(message, setting) ==
    IF setting.roleId # ""
    THEN [mentions |-> Append(message.mentions, setting.roleId),
          allowed |-> {setting.roleId}]
    ELSE message

\* Lines 136-167: from setting si of guild gi on, the next setting that is
\* broadcast to, and the message as the settings passed on the way left it.
RECURSIVE Scan(_, _, _, _, _)
Scan(guilds, key, gi, si, message) ==
    IF gi > Len(guilds)
    THEN [found |-> FALSE, gi |-> 0, si |-> 0, message |-> FreshMessage]
    ELSE LET settings == Settings(guilds[gi], key)
         IN  IF si > Len(settings)
             THEN Scan(guilds, key, gi + 1, 1, FreshMessage)
             ELSE LET m == WithMention(message, settings[si])
                  IN  IF settings[si].channelId = ""
                      THEN Scan(guilds, key, gi, si + 1, m)
                      ELSE [found |-> TRUE, gi |-> gi, si |-> si, message |-> m]

\* PriorId with the setting's message id left out of the call.
PriorId_Dropped(setting) == <<>>

\* Line 172: the prior message id handed to the broadcaster.
PriorId(setting) == setting.messageId

\* Broadcaster.broadcast(channelId, message, messageId): the array it
\* resolves to.  A message is <<id>>, null is <<>>.  An edit keeps the id of
\* the message, a send makes a new one, named after its channel.
Response(outcome, channelId, messageId) ==
    CASE outcome = "message" ->
            << <<IF messageId # <<>> THEN messageId ELSE <<"m", channelId>>>> >>
      [] outcome = "null" -> << <<>> >>
      [] OTHER -> <<>>

\* Line 175.
HasResponse(response) == response # <<>> /\ Len(response) >= 1

\* ResponseId with the id of the message not read.
ResponseId_Undefined(response) == <<>>

\* Line 180: response[0]?.id, <<>> for undefined.
ResponseId(response) == IF response[1] = <<>> THEN <<>> ELSE response[1][1]

\* The key and the event of the loop iteration an invocation is in.
KeyOf(l) == l.events[l.idx][1]
EventOf(l) == l.events[l.idx][2]
SettingOf(l) == Settings(l.guilds[l.gi], KeyOf(l))[l.si]

\* ------------------------------------------------- where an invocation goes

\* refresh() returns at line 54 or 59.
Return(l, lines) == [l EXCEPT !.pc = "done", !.log = lines]

\* A rejected await that nothing catches: refresh() ends there.
Reject(l, calls) ==
    [Idle EXCEPT !.pc = "rejected", !.calls = calls,
                 !.log = {"unhandled rejection"}]

\* `continue` or the end of the body of the loop of line 62: findFirst is
\* awaited for the next entry, or refresh() ends.
NextEntry(l, lines) ==
    IF l.idx + 1 > Len(l.events)
    THEN [Idle EXCEPT !.pc = "done", !.calls = l.calls, !.log = lines]
    ELSE [Idle EXCEPT !.pc = "find", !.status = l.status, !.events = l.events,
                      !.idx = l.idx + 1, !.calls = l.calls, !.log = lines]

\* Lines 136-186 from setting si of guild gi on, up to the next awaited
\* broadcast.
Deliver(l, guilds, gi, si, message, calls, lines) ==
    LET s == Scan(guilds, KeyOf(l), gi, si, message)
        c == [l EXCEPT !.calls = calls]
    IN  IF s.found
        THEN [c EXCEPT !.pc = "broadcast", !.guilds = guilds, !.gi = s.gi,
                       !.si = s.si, !.message = s.message, !.response = <<>>,
                       !.log = lines]
        ELSE NextEntry(c, lines \cup {"broadcasted"})

\* ----------------------------------------------------------------- actions

\* The kinds of trigger counted: the event type, the stage ("notify" after a
\* create, "refresh" after an update) and whether the create or update was
\* persisted.
TriggerKinds == {Helltide, WorldBoss} \X {"notify", "refresh"} \X BOOLEAN

Fired(count, key, stage, persisted) ==
    [count EXCEPT ![<<key, stage, persisted>>] = @ + 1]

\* What the two stores hold when the process starts: nothing, or what an
\* earlier run of the process left after the first notification of both
\* occurrences (the stores outlive the process).
InitialStores ==
    { [db |-> <<>>, messageIds |-> [k \in SettingKeys |-> <<>>]],
      [db |-> << NewRecord(<<>>, Helltide, HelltideEvent),
                 NewRecord(<<1>>, WorldBoss, WorldBossEvent) >>,
       messageIds |-> [k \in SettingKeys |-> <<"m", k[3]>>]] }

Init ==
    /\ scenario = FALSE
    /\ now = FirstInstant
    /\ lastFire = -1
    /\ started = 0
    /\ tick = [s \in Slots |-> Idle]
    /\ \E store \in InitialStores :
        /\ db = store.db
        /\ messageIds = store.messageIds
    /\ triggers = [x \in TriggerKinds |-> 0]

\* The clock is read when the cron job fires and at Date.now(): each reading
\* is an instant not before the last one.  In the scenario a tick takes no
\* time: Date.now() gives the instant the tick fired at.
Firings == { i \in Clock : i >= now }
Readings == IF scenario THEN {now} ELSE Firings

\* Lines 44, 47-50: the cron job fires and calls refresh(), which runs up to
\* the await of line 50.
TimerFire ==
    /\ started < Ticks
    /\ FreeSlots # {}
    /\ scenario => FreeSlots = Slots
    /\ \E i \in Firings :
        /\ lastFire < 0 \/ i >= lastFire + CronPeriod
        /\ now' = i
        /\ lastFire' = i
    /\ started' = started + 1
    /\ LET s == CHOOSE x \in FreeSlots : \A y \in FreeSlots : x <= y
       IN  tick' = [tick EXCEPT ![s] =
                [Idle EXCEPT !.pc = "fetch", !.log = {"refreshing"}]]
    /\ UNCHANGED <<scenario, db, messageIds, triggers>>

\* Lines 50-63: getStatus() and getEvents() resolve.
Fetch(n) ==
    /\ tick[n].pc = "fetch"
    /\ \E r \in Fetched :
        LET l == [tick[n] EXCEPT !.status = r.status, !.events = r.events]
        IN  tick' = [tick EXCEPT ![n] =
                IF ~ServiceAvailable(r.status) THEN Return(l, {"not available"})
                ELSE IF ~EventsFound(r.events) THEN Return(l, {"no events"})
                ELSE [l EXCEPT !.pc = "find", !.idx = 1, !.log = {}]]
    /\ UNCHANGED <<scenario, now, lastFire, started, db, messageIds, triggers>>

\* Lines 63-86 and 105-119: findFirst resolves; the invocation goes on to
\* the create, to the update, or to the next entry.
FindFirstDone(n) ==
    /\ tick[n].pc = "find"
    /\ LET l == [tick[n] EXCEPT !.calls = {}]
           key == KeyOf(l)
           event == EventOf(l)
           exist == FindFirst(db, key, event.timestamp)
       IN  IF ~NeedsWork(exist)
           THEN /\ tick' = [tick EXCEPT ![n] = NextEntry(l, {})]
                /\ UNCHANGED now
           ELSE \E i \in Readings :
                /\ now' = i
                /\ tick' = [tick EXCEPT ![n] =
                        IF exist = <<>>
                        THEN IF TooRecent(key, i, event)
                             THEN NextEntry(l, {"too recent"})
                             ELSE [l EXCEPT !.pc = "create", !.exist = exist,
                                            !.now = i, !.log = {}]
                        ELSE IF NotReady(i, exist[1])
                             THEN NextEntry(l, {"not ready"})
                             ELSE [l EXCEPT !.pc = "update", !.exist = exist,
                                            !.now = i, !.log = {}]]
    /\ UNCHANGED <<scenario, lastFire, started, db, messageIds, triggers>>

\* Lines 86-102 and 132: notification.create resolves or rejects (caught).
CreateDone(n) ==
    /\ tick[n].pc = "create"
    /\ \E ok \in Persisted :
        LET l == tick[n]
            key == KeyOf(l)
            event == EventOf(l)
            lines == IF ok THEN {} ELSE {"create failed"}
        IN  /\ db' = IF ok THEN Append(db, NewRecord(db, key, event)) ELSE db
            /\ IF TooOld(l.now, event)
               THEN /\ tick' = [tick EXCEPT ![n] = NextEntry(l, lines \cup {"too old"})]
                    /\ UNCHANGED triggers
               ELSE /\ tick' = [tick EXCEPT ![n] = [l EXCEPT !.pc = "resolve", !.log = lines]]
                    /\ triggers' = Fired(triggers, key, "notify", ok)
    /\ UNCHANGED <<scenario, now, lastFire, started, messageIds>>

\* Lines 119-132: notification.update resolves or rejects (caught).
UpdateDone(n) ==
    /\ tick[n].pc = "update"
    /\ \E ok \in Persisted :
        LET l == tick[n]
        IN  /\ db' = IF ok THEN UpdateRecord(db, l.exist[1].id, RefreshData) ELSE db
            /\ tick' = [tick EXCEPT ![n] =
                    [l EXCEPT !.pc = "resolve",
                              !.log = IF ok THEN {} ELSE {"refresh failed"}]]
            /\ triggers' = Fired(triggers, KeyOf(l), "refresh", ok)
    /\ UNCHANGED <<scenario, now, lastFire, started, messageIds>>

\* Lines 132-169: getAllByEvent resolves.
GetAllByEventDone(n) ==
    /\ tick[n].pc = "resolve"
    /\ LET l == tick[n]
           guilds == GetAllByEvent(KeyOf(l), messageIds)
       IN  tick' = [tick EXCEPT ![n] = Deliver(l, guilds, 1, 1, FreshMessage, {}, {"found"})]
    /\ UNCHANGED <<scenario, now, lastFire, started, db, messageIds, triggers>>

\* Lines 169-176 (and 150-169 for the next setting): broadcast resolves or
\* rejects.
BroadcastDone(n) ==
    /\ tick[n].pc = "broadcast"
    /\ \E outcome \in Broadcasts :
        LET l == tick[n]
            setting == SettingOf(l)
            response == Response(outcome, setting.channelId, PriorId(setting))
            calls == l.calls \cup
                        {[channelId |-> setting.channelId,
                          messageId |-> PriorId(setting), message |-> l.message]}
        IN  tick' = [tick EXCEPT ![n] =
                IF outcome = "raise" THEN Reject(l, calls)
                ELSE IF HasResponse(response)
                THEN [l EXCEPT !.pc = "writeback", !.response = response,
                               !.calls = calls, !.log = {}]
                ELSE Deliver(l, l.guilds, l.gi, l.si + 1, l.message, calls, {})]
    /\ UNCHANGED <<scenario, now, lastFire, started, db, messageIds, triggers>>

\* Lines 176-182 (and 150-169 for the next setting): updateEventMessageId
\* resolves, having stored the id or not, or rejects.
UpdateEventMessageIdDone(n) ==
    /\ tick[n].pc = "writeback"
    /\ \E outcome \in WriteBacks :
        LET l == tick[n]
            setting == SettingOf(l)
            k == <<l.guilds[l.gi].guildId, KeyOf(l), setting.channelId>>
        IN  /\ messageIds' = IF outcome = "stored"
                             THEN [messageIds EXCEPT ![k] = ResponseId(l.response)]
                             ELSE messageIds
            /\ tick' = [tick EXCEPT ![n] =
                    IF outcome = "raise" THEN Reject(l, l.calls)
                    ELSE Deliver(l, l.guilds, l.gi, l.si + 1, l.message, l.calls,
                                 IF outcome = "stored" THEN {}
                                 ELSE {"write-back failed"})]
    /\ UNCHANGED <<scenario, now, lastFire, started, db, triggers>>

Next ==
    \/ TimerFire
    \/ \E n \in Slots :
        \/ Fetch(n)
        \/ FindFirstDone(n)
        \/ CreateDone(n)
        \/ UpdateDone(n)
        \/ GetAllByEventDone(n)
        \/ BroadcastDone(n)
        \/ UpdateEventMessageIdDone(n)

Spec == Init /\ [][Next]_vars

\* The end-to-end scenario: the same refresh(), in the scenario's world.
ScenarioInit ==
    /\ scenario = TRUE
    /\ now = FirstScenarioInstant
    /\ lastFire = -1
    /\ started = 0
    /\ tick = [s \in Slots |-> Idle]
    /\ db = <<>>
    /\ messageIds = [k \in SettingKeysOf(ScenarioGuildConfig) |-> <<>>]
    /\ triggers = [x \in TriggerKinds |-> 0]

Scenario == ScenarioInit /\ [][Next]_vars

\* ------------------------------------------------------------ properties

\* The step taken by the invocation in slot s from position pc.
Step(s, pc) == tick[s].pc = pc /\ tick'[s] # tick[s]

\* The record the store holds for the occurrence the invocation is at.
RecordAt(l) == FindFirst(db, KeyOf(l), EventOf(l).timestamp)

\* The channels a trigger for key has to be broadcast to.
DeliverableChannels(key) ==
    { k[3] : k \in { x \in SettingKeys : x[2] = key } }

\* C1: with every create persisted, the notify-trigger of an occurrence
\* fires at most once, however often refresh() runs.
C1_NotifyAtMostOnce ==
    \A key \in {Helltide, WorldBoss} :
        triggers[<<key, "notify", FALSE>>] = 0
            => triggers[<<key, "notify", TRUE>>] <= 1

\* C2: for a record with timestamp T, refreshTimestamp R, T < R < T + 3600
\* and refreshed = false, the tick that finds it goes on to the update (the
\* refresh-trigger) exactly if T <= now <= T + 3600 and now >= R, and the
\* update is followed by the broadcast with refreshed = true written unless
\* the update failed.
C2_RefreshWindow ==
    [][\A s \in Slots :
        /\ Step(s, "find") =>
            LET rec == RecordAt(tick[s])
            IN  (/\ rec # <<>>
                 /\ ~rec[1].refreshed
                 /\ rec[1].timestamp < rec[1].refreshTimestamp
                 /\ rec[1].refreshTimestamp < rec[1].timestamp + 3600)
                => (tick'[s].pc = "update"
                    <=> /\ rec[1].timestamp * 1000 <= now'
                        /\ now' <= (rec[1].timestamp + 3600) * 1000
                        /\ now' >= rec[1].refreshTimestamp * 1000)
        /\ Step(s, "update") =>
            /\ tick'[s].pc = "resolve"
            /\ \/ "refresh failed" \in tick'[s].log
               \/ \E i \in DOMAIN db' :
                    db'[i].id = tick[s].exist[1].id /\ db'[i].refreshed
      ]_vars

C2_Witness ==
    \E s \in Slots :
        /\ tick[s].pc = "update"
        /\ tick[s].now = tick[s].exist[1].refreshTimestamp * 1000

\* C3: the refresh-trigger of an occurrence whose update was persisted fires
\* at most once.
C3_RefreshAtMostOnce ==
    \A key \in {Helltide, WorldBoss} : triggers[<<key, "refresh", TRUE>>] <= 1

\* C4: a Helltide occurrence without a record is left alone (no record, no
\* trigger) by a tick that reads now < timestamp + 30 s; a tick that reads
\* now >= timestamp + 30 s goes on to the create, and unless the occurrence is
\* stale by then the create is followed by the first notification.
C4_GracePeriod ==
    [][\A s \in Slots :
        /\ (Step(s, "find") /\ KeyOf(tick[s]) = Helltide /\ RecordAt(tick[s]) = <<>>) =>
            IF now' < (EventOf(tick[s]).timestamp + 30) * 1000
            THEN /\ tick'[s].pc \in {"find", "done"}
                 /\ tick'[s].idx # tick[s].idx
                 /\ "too recent" \in tick'[s].log
                 /\ UNCHANGED <<db, messageIds, triggers>>
            ELSE tick'[s].pc = "create"
        /\ (/\ Step(s, "create")
            /\ KeyOf(tick[s]) = Helltide
            /\ tick[s].now <= (EventOf(tick[s]).timestamp + 300) * 1000) =>
            /\ tick'[s].pc = "resolve"
            /\ \/ "create failed" \in tick'[s].log
               \/ FindFirst(db', Helltide, EventOf(tick[s]).timestamp) # <<>>
      ]_vars

C4_Witness ==
    \E s \in Slots :
        /\ tick[s].pc = "resolve"
        /\ KeyOf(tick[s]) = Helltide
        /\ tick[s].exist = <<>>
        /\ tick[s].now = (HelltideEvent.timestamp + 30) * 1000
        /\ FindFirst(db, Helltide, HelltideEvent.timestamp) # <<>>

\* C5: a tick that sights an occurrence without a record more than 5 minutes
\* after its timestamp stores a record with refreshed = false (unless the
\* create fails) and goes on to the next entry: no trigger, no broadcast call
\* and no message-id write-back.
C5_Staleness ==
    [][\A s \in Slots :
        (Step(s, "create") /\ tick[s].now > (EventOf(tick[s]).timestamp + 300) * 1000) =>
            /\ tick'[s].pc \in {"find", "done"}
            /\ tick'[s].idx # tick[s].idx
            /\ tick'[s].calls = {}
            /\ UNCHANGED <<messageIds, triggers>>
            /\ \/ "create failed" \in tick'[s].log
               \/ /\ Len(db') = Len(db) + 1
                  /\ db'[Len(db')].type = KeyOf(tick[s])
                  /\ db'[Len(db')].timestamp = EventOf(tick[s]).timestamp
                  /\ ~db'[Len(db')].refreshed
      ]_vars

C5_Witness ==
    \E s \in Slots :
        /\ "too old" \in tick[s].log
        /\ "create failed" \notin tick[s].log
        /\ FindFirst(db, Helltide, HelltideEvent.timestamp) # <<>>
        /\ triggers[<<Helltide, "notify", TRUE>>] = 0

\* C6: every broadcast call carries the prior message id of its setting (an
\* edit of that id when it is not empty, a create when it is), and after a
\* call that returned a message the write-back, when it succeeds, leaves that
\* message's id as the setting's stored id.
C6_EditOrCreate ==
    [][\A s \in Slots :
        /\ Step(s, "broadcast") =>
            LET setting == SettingOf(tick[s])
                call == [channelId |-> setting.channelId,
                         messageId |-> setting.messageId,
                         message |-> tick[s].message]
            IN  /\ call \in tick'[s].calls
                /\ tick'[s].calls \ tick[s].calls \subseteq {call}
                /\ (tick'[s].pc = "writeback" /\ tick'[s].response[1] # <<>>) =>
                        IF setting.messageId # <<>>
                        THEN tick'[s].response[1][1] = setting.messageId
                        ELSE tick'[s].response[1][1] # <<>>
        /\ (/\ Step(s, "writeback")
            /\ tick[s].response[1] # <<>>
            /\ "write-back failed" \notin tick'[s].log
            /\ tick'[s].pc # "rejected") =>
            messageIds'[<<tick[s].guilds[tick[s].gi].guildId, KeyOf(tick[s]),
                          SettingOf(tick[s]).channelId>>] = tick[s].response[1][1]
      ]_vars

C6_Witness ==
    \E s \in Slots :
        /\ tick[s].pc = "broadcast"
        /\ \E c \in tick[s].calls : c.messageId = <<>>
        /\ \E k \in SettingKeys : messageIds[k] # <<>>
        /\ triggers[<<Helltide, "notify", TRUE>>] = 1

\* C7: an invocation that has made a broadcast call for a trigger leaves the
\* delivery loop only after a call for every setting with a channel.
C7_DeliveryIsolation ==
    \A s \in Slots :
        (tick[s].calls # {} /\ tick[s].pc \notin {"broadcast", "writeback"})
            => { c.channelId : c \in tick[s].calls } = DeliverableChannels(Helltide)

\* C8: a tick whose status is absent or reports the event service as
\* unavailable, or whose event set is absent, ends at the fetch: nothing is
\* read from or written to the stores, no trigger fires, no call is made.
C8_SourceUnavailable ==
    [][\A s \in Slots :
        (/\ Step(s, "fetch")
         /\ \/ tick'[s].status = <<>>
            \/ ~tick'[s].status[1].event_service
            \/ tick'[s].events = <<>>) =>
            /\ tick'[s].pc = "done"
            /\ tick'[s].calls = {}
            /\ tick'[s].exist = <<>>
            /\ tick'[s].guilds = <<>>
            /\ UNCHANGED <<now, db, messageIds, triggers>>
      ]_vars

C8_Witness ==
    \E s \in Slots :
        /\ tick[s].pc = "done"
        /\ tick[s].status # <<>>
        /\ ~tick[s].status[1].event_service

\* C9: the store never holds two records with the same type and timestamp.
C9_RecordUnique ==
    \A i, j \in DOMAIN db :
        (db[i].type = db[j].type /\ db[i].timestamp = db[j].timestamp) => i = j

\* C10: records are created with refreshed = false, are never deleted, change
\* in nothing but refreshed, which only goes from false to true, and a
\* successful update leaves the record it updates with refreshed = true.
C10_RefreshedMonotonic ==
    [][/\ Len(db') >= Len(db)
       /\ \A i \in DOMAIN db :
            /\ [db'[i] EXCEPT !.refreshed = FALSE] = [db[i] EXCEPT !.refreshed = FALSE]
            /\ db[i].refreshed => db'[i].refreshed
       /\ \A i \in DOMAIN db' \ DOMAIN db : ~db'[i].refreshed
       /\ \A s \in Slots :
            (Step(s, "update") /\ "refresh failed" \notin tick'[s].log) =>
                \A i \in DOMAIN db' :
                    db'[i].id = tick[s].exist[1].id => db'[i].refreshed
      ]_vars

C10_Witness ==
    /\ triggers[<<Helltide, "refresh", TRUE>>] = 1
    /\ \E i \in DOMAIN db : db[i].type = Helltide /\ db[i].refreshed

\* The setting of the scenario, and the calls a tick of the scenario makes
\* for it.
ScenarioKey == <<"g1", Helltide, "c1">>

ScenarioCall(messageId) ==
    [channelId |-> "c1", messageId |-> messageId, message |-> FreshMessage]

\* C11: in the scenario, the tick at t0 + 40 s leaves one record with
\* refreshed = false, has made exactly one broadcast call, without a message
\* id, and has stored the returned id for the setting; the tick at
\* t0 + 650 s leaves the record with refreshed = true and has made exactly
\* one broadcast call, with the stored id; a tick that finds the record
\* refreshed changes nothing and makes no call, and no trigger ever fires a
\* second time.
C11_EndToEnd ==
    /\ [](scenario =>
            /\ \A x \in TriggerKinds : triggers[x] <= 1
            /\ tick[1].pc = "done" =>
                /\ now = Seconds(1000 + 40) =>
                    /\ db = << [id |-> 1, type |-> Helltide, timestamp |-> 1000,
                                refreshTimestamp |-> 1600, refreshed |-> FALSE] >>
                    /\ tick[1].calls = {ScenarioCall(<<>>)}
                    /\ messageIds[ScenarioKey] = <<"m", "c1">>
                    /\ triggers[<<Helltide, "notify", TRUE>>] = 1
                    /\ triggers[<<Helltide, "refresh", TRUE>>] = 0
                /\ (/\ now = Seconds(1000 + 650)
                    /\ triggers[<<Helltide, "notify", TRUE>>] = 1) =>
                    /\ db = << [id |-> 1, type |-> Helltide, timestamp |-> 1000,
                                refreshTimestamp |-> 1600, refreshed |-> TRUE] >>
                    /\ tick[1].calls = {ScenarioCall(<<"m", "c1">>)}
                    /\ messageIds[ScenarioKey] = <<"m", "c1">>
                    /\ triggers[<<Helltide, "refresh", TRUE>>] = 1)
    /\ [][scenario =>
            ((/\ Step(1, "find")
              /\ RecordAt(tick[1]) # <<>>
              /\ RecordAt(tick[1])[1].refreshed) =>
                /\ tick'[1].pc = "done"
                /\ tick'[1].calls = {}
                /\ UNCHANGED <<db, messageIds, triggers>>)
      ]_vars

C11_Witness ==
    /\ scenario
    /\ started = 3
    /\ lastFire = Seconds(1000 + 710)
    /\ tick[1].pc = "done"
    /\ tick[1].calls = {}
    /\ triggers[<<Helltide, "notify", TRUE>>] = 1
    /\ triggers[<<Helltide, "refresh", TRUE>>] = 1
    /\ messageIds[ScenarioKey] = <<"m", "c1">>

\* The positions inside the loop of line 62: the lifecycle logic.
InLifecycle(l) ==
    l.pc \in {"find", "create", "update", "resolve", "broadcast", "writeback"}

\* C12: two invocations of refresh() are never inside the lifecycle logic
\* together: a tick that fires while another is still running does not get
\* as far as line 63 before that one has ended.
C12_NoOverlap ==
    \A s, t \in Slots :
        (InLifecycle(tick[s]) /\ InLifecycle(tick[t])) => s = t

\* C13: a broadcast that yields no message (null) is followed by no
\* write-back: updateEventMessageId is awaited only with a response that
\* holds a message, so the stored id of a setting whose delivery failed stays
\* as it was.
C13_NoWriteBackOnFailure ==
    [][\A s \in Slots :
        /\ (Step(s, "broadcast") /\ tick'[s].pc = "writeback") =>
                tick'[s].response[1] # <<>>
        /\ (Step(s, "writeback") /\ tick[s].response[1] = <<>>) =>
                UNCHANGED messageIds
      ]_vars

\* C14: a create or update that fails leaves the store as it was and does
\* not end the tick: after a failed create the invocation goes on to the
\* next entry if the occurrence is stale and to the notification otherwise,
\* after a failed update it goes on to the refresh notification, and the
\* notification is broadcast to the subscribers of the event type.
C14_PersistenceFailureNonFatal ==
    [][\A s \in Slots :
        /\ (Step(s, "create") /\ "create failed" \in tick'[s].log) =>
            /\ db' = db
            /\ IF tick[s].now > (EventOf(tick[s]).timestamp + 300) * 1000
               THEN /\ tick'[s].pc \in {"find", "done"}
                    /\ tick'[s].idx # tick[s].idx
                    /\ UNCHANGED triggers
               ELSE /\ tick'[s].pc = "resolve"
                    /\ triggers' = [triggers EXCEPT
                            ![<<KeyOf(tick[s]), "notify", FALSE>>] = @ + 1]
        /\ (Step(s, "update") /\ "refresh failed" \in tick'[s].log) =>
            /\ db' = db
            /\ tick'[s].pc = "resolve"
            /\ triggers' = [triggers EXCEPT
                    ![<<KeyOf(tick[s]), "refresh", FALSE>>] = @ + 1]
        /\ (/\ Step(s, "resolve")
            /\ tick[s].log \cap {"create failed", "refresh failed"} # {}) =>
            IF DeliverableChannels(KeyOf(tick[s])) # {}
            THEN /\ tick'[s].pc = "broadcast"
                 /\ tick'[s].idx = tick[s].idx
            ELSE /\ tick'[s].pc \in {"find", "done"}
                 /\ tick'[s].idx # tick[s].idx
      ]_vars

C14_Witness ==
    /\ started = 1
    /\ db = <<>>
    /\ triggers[<<Helltide, "notify", FALSE>>] = 1
    /\ \E s \in Slots :
        /\ tick[s].pc = "broadcast"
        /\ KeyOf(tick[s]) = Helltide
        /\ tick[s].calls # {}

\* The role of the setting a call was made for (channels are not shared
\* between settings here).
RoleOf(channelId) ==
    LET roles == UNION { { GuildConfig[g].events[x].roleId :
                            x \in { y \in DOMAIN GuildConfig[g].events :
                                      GuildConfig[g].events[y].channelId = channelId } } :
                         g \in DOMAIN GuildConfig }
    IN  CHOOSE r \in roles : TRUE

\* C15: the message of every broadcast call carries the mention suffix and
\* the allowed-mentions entry of the role of its own setting and of no other:
\* one mention of that role if the setting has a role, none if it has not.
C15_MentionScoping ==
    \A s \in Slots : \A c \in tick[s].calls :
        c.message = IF RoleOf(c.channelId) # ""
                    THEN [mentions |-> <<RoleOf(c.channelId)>>,
                          allowed |-> {RoleOf(c.channelId)}]
                    ELSE FreshMessage

\* C16: a tick that finds a record whose refreshTimestamp is 0 or whose
\* refreshed flag is true goes straight on to the next entry: it writes
\* nothing to either store, fires no trigger and makes no call.
C16_HandledIsInert ==
    [][\A s \in Slots :
        (/\ Step(s, "find")
         /\ RecordAt(tick[s]) # <<>>
         /\ \/ RecordAt(tick[s])[1].refreshTimestamp = 0
            \/ RecordAt(tick[s])[1].refreshed) =>
            /\ tick'[s].pc \in {"find", "done"}
            /\ tick'[s].idx # tick[s].idx
            /\ tick'[s].calls = {}
            /\ tick'[s].guilds = <<>>
            /\ tick'[s].log = {}
            /\ UNCHANGED <<now, db, messageIds, triggers>>
      ]_vars

C16_Witness ==
    /\ \E i \in DOMAIN db : db[i].type = Helltide /\ db[i].refreshed
    /\ \E s \in Slots :
        /\ tick[s].pc = "find"
        /\ tick[s].idx = 2
        /\ tick[s].log = {}
        /\ tick[s].calls = {}

\* The settings of a guild that have a channel, and the message as the first
\* k settings of a list leave it.
WithChannel(guild) ==
    SelectSeq(Settings(guild, Helltide), LAMBDA e : e.channelId # "")

RECURSIVE Mentioned(_, _)
Mentioned(settings, k) ==
    IF k = 0 THEN FreshMessage
    ELSE WithMention(Mentioned(settings, k - 1), settings[k])

\* C17: a setting without a channel gets no broadcast call and changes
\* nothing for the others: every call goes to a channel and carries the
\* message it would carry if the guild had only its settings with a channel,
\* and a delivery loop that has run to its end has called every channel.
C17_NoChannelSkip ==
    \A s \in Slots :
        /\ \A c \in tick[s].calls :
            /\ c.channelId # ""
            /\ \E g \in DOMAIN GuildConfig :
                \E k \in DOMAIN WithChannel(GuildConfig[g]) :
                    /\ WithChannel(GuildConfig[g])[k].channelId = c.channelId
                    /\ c.message = Mentioned(WithChannel(GuildConfig[g]), k)
        /\ ("broadcasted" \in tick[s].log /\ tick[s].calls # {}) =>
            { c.channelId : c \in tick[s].calls } = DeliverableChannels(Helltide)

\* C18: however the write-back of a message id ends, refresh() goes on: to
\* the broadcast for the next setting with a channel or, after the last one,
\* to the next entry.
C18_WriteBackBestEffort ==
    [][\A s \in Slots :
        Step(s, "writeback") =>
            LET l == tick[s]
                next == Scan(l.guilds, KeyOf(l), l.gi, l.si + 1, l.message)
            IN  IF next.found
                THEN /\ tick'[s].pc = "broadcast"
                     /\ tick'[s].gi = next.gi
                     /\ tick'[s].si = next.si
                ELSE /\ tick'[s].pc \in {"find", "done"}
                     /\ "broadcasted" \in tick'[s].log
      ]_vars

\* The steps an invocation takes for an entry it found no record of: the
\* create and the first notification.
FirstStage(l) ==
    l.pc \in {"create", "resolve", "broadcast", "writeback"} /\ l.exist = <<>>

NeverNotified ==
    /\ triggers[<<Helltide, "notify", TRUE>>] = 0
    /\ triggers[<<Helltide, "notify", FALSE>>] = 0

\* C20: a Helltide occurrence first sighted more than 5 minutes after its
\* timestamp gets a record with its refresh date and refreshed = false and no
\* first notification; a later tick that finds this record at a time inside
\* [timestamp, timestamp + 1 hour] and not before the refresh date goes on to
\* the update and from there to the broadcast of the refresh notification.
C20_RefreshAfterStaleSighting ==
    [][\A s \in Slots :
        /\ (/\ Step(s, "create")
            /\ KeyOf(tick[s]) = Helltide
            /\ tick[s].now > (EventOf(tick[s]).timestamp + 300) * 1000) =>
            /\ UNCHANGED triggers
            /\ tick'[s].pc \in {"find", "done"}
            /\ \/ "create failed" \in tick'[s].log
               \/ /\ Len(db') = Len(db) + 1
                  /\ db'[Len(db')].type = Helltide
                  /\ db'[Len(db')].refreshTimestamp = EventOf(tick[s]).refresh
                  /\ db'[Len(db')].refreshTimestamp > 0
                  /\ ~db'[Len(db')].refreshed
        /\ (/\ Step(s, "find")
            /\ KeyOf(tick[s]) = Helltide
            /\ NeverNotified
            /\ RecordAt(tick[s]) # <<>>
            /\ ~RecordAt(tick[s])[1].refreshed
            /\ RecordAt(tick[s])[1].refreshTimestamp > 0
            /\ now' >= RecordAt(tick[s])[1].timestamp * 1000
            /\ now' <= (RecordAt(tick[s])[1].timestamp + 3600) * 1000
            /\ now' >= RecordAt(tick[s])[1].refreshTimestamp * 1000) =>
            tick'[s].pc = "update"
        /\ (Step(s, "update") /\ NeverNotified) =>
            /\ tick'[s].pc = "resolve"
            /\ \E persisted \in BOOLEAN :
                triggers' = [triggers EXCEPT
                    ![<<Helltide, "refresh", persisted>>] = @ + 1]
        /\ (Step(s, "resolve") /\ tick[s].exist # <<>> /\ NeverNotified) =>
            /\ tick'[s].pc = "broadcast"
            /\ tick'[s].guilds # <<>>
      ]_vars

C20_Witness ==
    /\ NeverNotified
    /\ started = 2
    /\ \A k \in SettingKeys : messageIds[k] = <<>>
    /\ triggers[<<Helltide, "refresh", TRUE>>] = 1
    /\ \E i \in DOMAIN db : db[i].type = Helltide /\ db[i].refreshed
    /\ \E s \in Slots :
        /\ tick[s].pc = "broadcast"
        /\ tick[s].exist # <<>>

====
